---- MODULE Spec2Model ----
(***************************************************************************)
(* Model of gpahal/golib http/client (src/http/client/client.go):          *)
(* Client, Request (SetBody / WithJsonBody / SetFormBody) and Client.Do.    *)
(*                                                                         *)
(* A reader (bytes.Buffer, bytes.Reader, strings.Reader or any other       *)
(* io.Reader) is a record [kind, s, i]: s the bytes it holds, i the number *)
(* of bytes already read.  Bytes are one-character strings.                *)
(***************************************************************************)
EXTENDS Integers, Sequences, FiniteSets, TLC

\* ---------------------------------------------------------------- bounds
MaxLen == 2            \* longest raw body a caller attaches
MaxAttempts == 3       \* largest RetryOptions max-attempt count
MaxGetBodyCalls == 2   \* GetBody invocations tracked per attached body

\* ------------------------------------------------------------- data sets
Byte == {"a", "b"}
Reqs == {1, 2}
BoundedKinds == {"Buffer", "BytesReader", "StringsReader"}
ReaderKinds == BoundedKinds \cup {"OneShot"}

SeqsUpTo(S, n) == UNION {[1..k -> S] : k \in 0..n}

\* what is left to read in a reader
Unread(b) == SubSeq(b.s, b.i + 1, Len(b.s))

\* (*bytes.Buffer).Len, (*bytes.Reader).Len, (*strings.Reader).Len
ReaderLen(b) == Len(b.s) - b.i

NilBody == [kind |-> "nil", s |-> <<>>, i |-> 0]
NoBody == [kind |-> "NoBody", s |-> <<>>, i |-> 0]

\* the io.Reader values a caller passes as a body: nil, http.NoBody, or a
\* reader of any kind at any read position
RawBodies ==
    {NilBody, NoBody} \cup
    {[kind |-> k, s |-> s, i |-> i] :
        k \in ReaderKinds, s \in SeqsUpTo(Byte, MaxLen), i \in 0..MaxLen}

BodyInputs == {b \in RawBodies : b.i <= Len(b.s)}

\* ------------------------------------------------- body factory closures
\* req.GetBody is nil or one of the closures SetBody / http.NewRequest build
NilFn == [fn |-> "nil", s |-> <<>>, i |-> 0]
NoBodyFn == [fn |-> "NoBody", s |-> <<>>, i |-> 0]

\* buf := v.Bytes(); bytes.NewReader(buf) on every call
BufferFn(b) == [fn |-> "buf", s |-> Unread(b), i |-> 0]

\* snapshot := *v; r := snapshot; &r on every call
SnapshotFnWhole(b) == [fn |-> "snapshot", s |-> b.s, i |-> 0]
SnapshotFn(b) == [fn |-> "snapshot", s |-> b.s, i |-> b.i]

\* ---------------------------------------------------------------- state
VARIABLES
    client,     \* the Client: header (0 = nil map, else a map id), maxAttempts
    headers,    \* the http.Header maps on the heap: map id -> key -> value
    req,        \* the Requests: exists, Header, Body, GetBody, ContentLength
    attached,   \* per request: the body value last attached, as it was then
    got,        \* per request: results of the GetBody invocations so far
    do,         \* per request: the Client.Do invocation
    ret,        \* per request: what the last builder call returned
    opts,       \* ClientOptions.Timeout the Client was built with
    httpClient, \* the http.Client's Timeout, dial and TLS handshake timeouts
    response,   \* the Response a caller holds: its Body stream
    result      \* what the response helper called on it returned

vars == <<client, headers, req, attached, got, do, ret,
          opts, httpClient, response, result>>

\* ------------------------------------------------------------- headers
HeaderKeys == {"Content-Type", "X-Trace"}
HeaderVals == {"", "application/json", "application/x-www-form-urlencoded", "t1"}
NilMap == 0
ClientMap == 1
\* the map http.NewRequest makes for request r (make(Header))
FreshMap(r) == r + 1
HdrIds == {ClientMap} \cup {FreshMap(r) : r \in Reqs}
EmptyHeader == [k \in HeaderKeys |-> ""]

\* the header entries seen through a map reference (a nil map reads as empty)
HeaderView(h) == IF h = NilMap THEN EmptyHeader ELSE headers[h]

\* ------------------------------------------------------------ requests
NoRequest ==
    [exists |-> FALSE, Header |-> NilMap, Body |-> NilBody, GetBody |-> NilFn,
     ContentLength |-> 0]

NoAttach == [via |-> "none", kind |-> "nil", unread |-> <<>>]

IdleDo == [state |-> "Idle", attempts |-> 0, failures |-> 0, last |-> "nil",
           offered |-> <<>>, resp |-> 0, err |-> "nil"]

\* http.NewRequest(method, url, body) for a valid method and url: the body
\* fields of the new request (net/http, called at client.go:67)
HttpNewRequest(b) ==
    LET q0 == [NoRequest EXCEPT !.exists = TRUE, !.Body = b]
        q1 == CASE b.kind = "Buffer" ->
                     [q0 EXCEPT !.ContentLength = ReaderLen(b), !.GetBody = BufferFn(b)]
                [] b.kind \in {"BytesReader", "StringsReader"} ->
                     [q0 EXCEPT !.ContentLength = ReaderLen(b), !.GetBody = SnapshotFn(b)]
                [] OTHER -> q0
    IN  IF b.kind # "nil" /\ q1.GetBody # NilFn /\ q1.ContentLength = 0
        THEN [q1 EXCEPT !.Body = NoBody, !.GetBody = NoBodyFn]
        ELSE q1

\* req.Header = c.header
NewRequestHeaderFresh(c, fresh) == fresh
NewRequestHeader(c, fresh) == c.header

\* a SetBody that drained a bounded source to learn its length
SetBodyReqConsuming(q, b) ==
    IF b.kind \in BoundedKinds
    THEN [q EXCEPT !.Body = [b EXCEPT !.i = Len(b.s)],
                   !.ContentLength = ReaderLen(b),
                   !.GetBody = SnapshotFn(b)]
    ELSE [q EXCEPT !.Body = b, !.ContentLength = -1]

\* (*Request).SetBody: the request after attaching body b
SetBodyReq(q, b) ==
    IF b.kind = "nil"
    THEN [q EXCEPT !.ContentLength = 0, !.Body = NoBody, !.GetBody = NoBodyFn]
    ELSE LET q1 == [q EXCEPT !.Body = b]
             q2 == CASE b.kind = "Buffer" ->
                          [q1 EXCEPT !.ContentLength = ReaderLen(b),
                                     !.GetBody = BufferFn(b)]
                     [] b.kind \in {"BytesReader", "StringsReader"} ->
                          [q1 EXCEPT !.ContentLength = ReaderLen(b),
                                     !.GetBody = SnapshotFn(b)]
                     [] OTHER ->
                          IF b # NoBody THEN [q1 EXCEPT !.ContentLength = -1] ELSE q1
         IN  IF q2.ContentLength = 0
             THEN [q2 EXCEPT !.Body = NoBody, !.GetBody = NoBodyFn]
             ELSE q2

Attach(via, b) == [via |-> via, kind |-> b.kind, unread |-> Unread(b)]

NoPanic == \A r \in Reqs : ret[r] # "panic"

\* ------------------------------------------------------- time.Duration
\* A time.Duration is an int64 count of nanoseconds.  It is kept here as
\* four 16-bit limbs, least significant first, in two's complement, so that
\* the 64-bit wrap-around of Go's arithmetic is computed, not assumed away.
LimbBase == 2^16
Duration == [1..4 -> 0..(LimbBase - 1)]

\* the Duration of a natural number below 2^31
FromNat(n) == <<n % LimbBase, (n \div LimbBase) % LimbBase, 0, 0>>

\* the Duration 2^j, j in 0..62
Pow2(j) == [k \in 1..4 |-> IF k = (j \div 16) + 1 THEN 2^(j % 16) ELSE 0]

IsNeg(x) == x[4] >= LimbBase \div 2
IsZero(x) == \A k \in 1..4 : x[k] = 0

\* x + y, wrapping at 64 bits
Add(x, y) ==
    LET s1 == x[1] + y[1]
        s2 == x[2] + y[2] + (s1 \div LimbBase)
        s3 == x[3] + y[3] + (s2 \div LimbBase)
        s4 == x[4] + y[4] + (s3 \div LimbBase)
    IN  <<s1 % LimbBase, s2 % LimbBase, s3 % LimbBase, s4 % LimbBase>>

\* -x, wrapping at 64 bits (the negation of the least int64 is itself)
Neg(x) == Add([k \in 1..4 |-> LimbBase - 1 - x[k]], FromNat(1))

\* x * m for a small natural m, wrapping at 64 bits: Go's `x * m`
MulSmall(x, m) ==
    LET p1 == x[1] * m
        p2 == x[2] * m + (p1 \div LimbBase)
        p3 == x[3] * m + (p2 \div LimbBase)
        p4 == x[4] * m + (p3 \div LimbBase)
    IN  <<p1 % LimbBase, p2 % LimbBase, p3 % LimbBase, p4 % LimbBase>>

\* the quotient of a non-negative x by a small natural m > 0
DivSmallNonNeg(x, m) ==
    LET t4 == x[4]
        t3 == (t4 % m) * LimbBase + x[3]
        t2 == (t3 % m) * LimbBase + x[2]
        t1 == (t2 % m) * LimbBase + x[1]
    IN  <<t1 \div m, t2 \div m, t3 \div m, t4 \div m>>

\* x / m truncated toward zero: Go's `x / m` on signed integers
DivSmall(x, m) ==
    IF IsNeg(x) THEN Neg(DivSmallNonNeg(Neg(x), m)) ELSE DivSmallNonNeg(x, m)

\* x < y as signed 64-bit integers
RECURSIVE LessFrom(_, _, _)
LessFrom(x, y, k) ==
    IF k = 0 THEN FALSE
    ELSE IF x[k] # y[k] THEN x[k] < y[k]
    ELSE LessFrom(x, y, k - 1)

Less(x, y) ==
    IF IsNeg(x) # IsNeg(y) THEN IsNeg(x) ELSE LessFrom(x, y, 4)

ZeroDuration == FromNat(0)
Second == FromNat(1000000000)
defaultTimeout == MulSmall(Second, 10)

\* the three timeouts NewClient configures for ClientOptions.Timeout = t
HttpClientFor(t) ==
    LET timeout == IF IsNeg(t) \/ IsZero(t) THEN defaultTimeout ELSE t
    IN  [Timeout |-> timeout,
         DialTimeout |-> DivSmall(MulSmall(timeout, 3), 4),
         TLSHandshakeTimeout |-> DivSmall(MulSmall(timeout, 3), 4)]

\* the ClientOptions.Timeout values tried: the powers of two and their
\* neighbours, positive and negative, and zero
TimeoutInputs ==
    LET near == {Add(Pow2(j), d) : j \in 0..62,
                                   d \in {ZeroDuration, FromNat(1), Neg(FromNat(1))}}
    IN  near \cup {Neg(x) : x \in near}

\* ------------------------------------------------------ response bodies
\* A response body is a byte stream; its content is kept as a sequence of
\* JSON lexemes: "{", "}", a number digit "num" (1), a string literal "str"
\* ("x") and an object key with its colon "key" ("n":).  The stream ends
\* with io.EOF or with a read error of the connection.
MaxTokens == 4         \* longest response body, in lexemes

Tokens == {"{", "}", "key", "num", "str"}
Width(t) == CASE t = "key" -> 4 [] t = "str" -> 3 [] OTHER -> 1
StreamEnds == {"EOF", "IOError"}
ResponseBodies ==
    [s : SeqsUpTo(Tokens, MaxTokens), end : StreamEnds, i : {0}, closed : {FALSE}]

NoResponse == [Body |-> [s |-> <<>>, end |-> "EOF", i |-> 0, closed |-> FALSE]]

\* errors of the decoder and of the response helpers
NilErr == [kind |-> "nil"]
PlainErr(kind) == [kind |-> kind]
NoResult == [op |-> "none", target |-> "none", str |-> <<>>, err |-> NilErr]

\* json.Decoder.readValue over the lexemes delivered so far: the scanner
\* stops at the end of the first value ("end", off = its length in bytes),
\* at the first byte no JSON text can continue with ("error", off = bytes
\* read up to and including it), or runs out of input ("more")
RECURSIVE Scan(_, _, _, _, _)
Scan(s, k, mode, depth, off) ==
    IF k > Len(s)
    THEN [st |-> "more", mode |-> mode, depth |-> depth, off |-> off]
    ELSE LET t == s[k]
             bad(o) == [st |-> "error", mode |-> mode, depth |-> depth, off |-> o]
             done(o) == [st |-> "end", mode |-> mode, depth |-> depth, off |-> o]
             close == IF depth = 1 THEN done(off + 1)
                      ELSE Scan(s, k + 1, "endValue", depth - 1, off + 1)
         IN  CASE mode = "beginValue" ->
                    (CASE t = "{" -> Scan(s, k + 1, "beginKey", depth + 1, off + 1)
                       [] t = "num" -> Scan(s, k + 1, "inNumber", depth, off + 1)
                       [] t = "str" ->
                            Scan(s, k + 1, IF depth = 0 THEN "endTop" ELSE "endValue",
                                 depth, off + 3)
                       [] t = "key" -> IF depth = 0 THEN done(off + 3) ELSE bad(off + 4)
                       [] OTHER -> bad(off + 1))
               [] mode = "beginKey" ->
                    (CASE t = "}" -> close
                       [] t = "key" -> Scan(s, k + 1, "beginValue", depth, off + 4)
                       [] t = "str" -> Scan(s, k + 1, "afterKeyString", depth, off + 3)
                       [] OTHER -> bad(off + 1))
               [] mode = "afterKeyString" -> bad(off + 1)
               [] mode = "endValue" -> IF t = "}" THEN close ELSE bad(off + 1)
               [] mode = "inNumber" ->
                    IF t = "num" THEN Scan(s, k + 1, "inNumber", depth, off + 1)
                    ELSE IF depth = 0 THEN done(off)
                    ELSE Scan(s, k, "endValue", depth, off)
               [] OTHER -> done(off)

\* the targets a caller binds to: a pointer to struct{ N int `json:"n"` },
\* and a value that is no pointer
Targets == {"ptrToStruct", "nonPointer"}

UnmarshalTypeError(value, type, field, offset) ==
    [kind |-> "UnmarshalTypeError", Value |-> value, Type |-> type,
     Field |-> field, Offset |-> offset]
SyntaxError(offset) == [kind |-> "SyntaxError", Offset |-> offset]

\* decodeState.unmarshal of a scanned value of n bytes into the target
Unmarshal(s, n, target) ==
    CASE target = "nonPointer" -> PlainErr("InvalidUnmarshalError")
      [] s[1] = "num" -> UnmarshalTypeError("number", "struct", "", n)
      [] s[1] \in {"str", "key"} -> UnmarshalTypeError("string", "struct", "", n)
      [] s[2] = "}" -> NilErr
      [] s[3] = "num" -> NilErr
      [] s[3] = "str" -> UnmarshalTypeError("string", "int", "n", 8)
      [] OTHER -> UnmarshalTypeError("object", "int", "n", 6)

\* json.NewDecoder(body).Decode(v)
Decode(body, target) ==
    LET r == Scan(body.s, 1, "beginValue", 0, 0)
    IN  CASE r.st = "error" -> SyntaxError(r.off)
          [] r.st = "end" -> Unmarshal(body.s, r.off, target)
          [] body.end # "EOF" -> PlainErr(body.end)
          [] r.depth = 0 /\ r.mode \in {"inNumber", "endTop"} ->
                Unmarshal(body.s, r.off, target)
          [] r.off = 0 -> PlainErr("io.EOF")
          [] OTHER -> PlainErr("io.ErrUnexpectedEOF")

\* echo.NewHTTPError(http.StatusBadRequest, message).SetInternal(err)
HTTPError(message, err) ==
    [kind |-> "HTTPError", Code |-> 400, Message |-> message, Internal |-> err]

\* the error BindJsonBody returns for the decoder's error
BindError(err) ==
    CASE err.kind = "nil" -> NilErr
      [] err.kind = "UnmarshalTypeError" ->
            HTTPError([text |-> "Unmarshal type error", expected |-> err.Type,
                       got |-> err.Value, field |-> err.Field,
                       offset |-> err.Offset], err)
      [] err.kind = "SyntaxError" ->
            HTTPError([text |-> "Syntax error", offset |-> err.Offset], err)
      [] OTHER -> err

\* ------------------------------------------------------------- actions
\* NewClient(opts): the state after construction
Init ==
    /\ client \in [header : {NilMap, ClientMap}, maxAttempts : 1..MaxAttempts]
    /\ headers = [h \in HdrIds |-> EmptyHeader]
    /\ req = [r \in Reqs |-> NoRequest]
    /\ attached = [r \in Reqs |-> NoAttach]
    /\ got = [r \in Reqs |-> <<>>]
    /\ do = [r \in Reqs |-> IdleDo]
    /\ ret = [r \in Reqs |-> "none"]
    /\ opts = ZeroDuration
    /\ httpClient = HttpClientFor(opts)
    /\ response = NoResponse
    /\ result = NoResult

\* c.NewRequest(method, url, body)
NewRequest(r, valid, b) ==
    /\ NoPanic
    /\ ~req[r].exists
    /\ IF ~valid
       THEN /\ ret' = [ret EXCEPT ![r] = "InvalidRequest"]
            /\ UNCHANGED <<req, attached>>
       ELSE /\ req' = [req EXCEPT ![r] =
                         [HttpNewRequest(b) EXCEPT
                             !.Header = NewRequestHeader(client, FreshMap(r))]]
            /\ attached' = [attached EXCEPT ![r] = Attach("NewRequest", b)]
            /\ ret' = [ret EXCEPT ![r] = "nil"]
    /\ UNCHANGED <<opts, httpClient, response, result, client, headers, got, do>>

\* req.SetBody(body)
SetBody(r, b) ==
    /\ NoPanic
    /\ req[r].exists
    /\ do[r].state = "Idle"
    /\ req' = [req EXCEPT ![r] = SetBodyReq(req[r], b)]
    /\ attached' = [attached EXCEPT ![r] = Attach("SetBody", b)]
    /\ got' = [got EXCEPT ![r] = <<>>]
    /\ ret' = [ret EXCEPT ![r] = "nil"]
    /\ UNCHANGED <<opts, httpClient, response, result, client, headers, do>>

\* ------------------------------------------------------ JSON and forms
\* the values a caller hands to WithJsonBody: the number 7, an empty struct
\* and a channel (which encoding/json cannot serialize)
JsonValues == {"seven", "emptyStruct", "channel"}

\* json.Marshal(v): the error, or the serialization
Marshal(v) ==
    CASE v = "seven" -> [err |-> "nil", bs |-> <<"7">>]
      [] v = "emptyStruct" -> [err |-> "nil", bs |-> <<"{", "}">>]
      [] OTHER -> [err |-> "EncodingError", bs |-> <<>>]

\* the form keys in the order url.Values.Encode emits them (sorted)
SortedKeys == <<"x", "y">>
FormKeys == {SortedKeys[n] : n \in 1..Len(SortedKeys)}
FormVals == {<<"1">>, <<" ">>}

\* the caller's key/value pairs in the order supplied, one value per key
FormInputs ==
    {f \in SeqsUpTo(FormKeys \X FormVals, Len(SortedKeys)) :
        /\ \A m, n \in 1..Len(f) : m # n => f[m][1] # f[n][1]
        /\ \A n \in 1..Len(f) : f[n][1] = "x" => f[n][2] = <<"1">>
        /\ \A n \in 1..Len(f) : f[n][1] = "y" => f[n][2] = <<" ">> /\ Len(f) = 2}

\* url.Values built from the pairs: a map, which keeps no order
FormMap(f) == [k \in {f[n][1] : n \in 1..Len(f)} |->
                 (CHOOSE n \in 1..Len(f) : f[n][1] = k)]

\* url.QueryEscape
RECURSIVE QueryEscape(_)
QueryEscape(s) ==
    IF s = <<>> THEN <<>>
    ELSE (IF Head(s) = " " THEN <<"+">> ELSE <<Head(s)>>) \o QueryEscape(Tail(s))

\* url.Values.Encode: key=value pairs joined by "&", keys in sorted order
RECURSIVE EncodeFrom(_, _, _)
EncodeFrom(f, n, out) ==
    IF n > Len(SortedKeys) THEN out
    ELSE LET k == SortedKeys[n]
             m == FormMap(f)
         IN  IF k \in DOMAIN m
             THEN EncodeFrom(f, n + 1,
                      (IF out = <<>> THEN <<>> ELSE out \o <<"&">>)
                      \o <<k>> \o <<"=">> \o QueryEscape(f[m[k]][2]))
             ELSE EncodeFrom(f, n + 1, out)

Encode(f) == EncodeFrom(f, 1, <<>>)

BytesNewReader(bs) == [kind |-> "BytesReader", s |-> bs, i |-> 0]
StringsNewReader(bs) == [kind |-> "StringsReader", s |-> bs, i |-> 0]

\* http.Header.Set on the map h: writing a nil map panics
HeaderSetMap(h, k, v) == [headers EXCEPT ![h][k] = v]

\* req.Header.Set(k, v) by the caller (the embedded http.Request's field)
HeaderSet(r, k, v) ==
    /\ NoPanic
    /\ req[r].exists
    /\ do[r].state = "Idle"
    /\ IF req[r].Header = NilMap
       THEN /\ ret' = [ret EXCEPT ![r] = "panic"]
            /\ UNCHANGED headers
       ELSE /\ headers' = HeaderSetMap(req[r].Header, k, v)
            /\ ret' = [ret EXCEPT ![r] = "nil"]
    /\ UNCHANGED <<opts, httpClient, response, result, client, req, attached, got, do>>

\* req.WithJsonBody(body)
WithJsonBody(r, v) ==
    /\ NoPanic
    /\ req[r].exists
    /\ do[r].state = "Idle"
    /\ IF req[r].Header = NilMap
       THEN /\ ret' = [ret EXCEPT ![r] = "panic"]
            /\ UNCHANGED <<headers, req, attached, got>>
       ELSE /\ headers' = HeaderSetMap(req[r].Header, "Content-Type", "application/json")
            /\ IF Marshal(v).err # "nil"
               THEN /\ ret' = [ret EXCEPT ![r] = Marshal(v).err]
                    /\ UNCHANGED <<req, attached, got>>
               ELSE /\ req' = [req EXCEPT ![r] =
                                 SetBodyReq(req[r], BytesNewReader(Marshal(v).bs))]
                    /\ attached' = [attached EXCEPT ![r] =
                                      Attach("WithJsonBody", BytesNewReader(Marshal(v).bs))]
                    /\ got' = [got EXCEPT ![r] = <<>>]
                    /\ ret' = [ret EXCEPT ![r] = "nil"]
    /\ UNCHANGED <<opts, httpClient, response, result, client, do>>

\* req.SetFormBody(data)
SetFormBody(r, f) ==
    /\ NoPanic
    /\ req[r].exists
    /\ do[r].state = "Idle"
    /\ IF req[r].Header = NilMap
       THEN /\ ret' = [ret EXCEPT ![r] = "panic"]
            /\ UNCHANGED <<headers, req, attached, got>>
       ELSE /\ headers' = HeaderSetMap(req[r].Header, "Content-Type",
                                       "application/x-www-form-urlencoded")
            /\ req' = [req EXCEPT ![r] =
                         SetBodyReq(req[r], StringsNewReader(Encode(f)))]
            /\ attached' = [attached EXCEPT ![r] =
                              Attach("SetFormBody", StringsNewReader(Encode(f)))]
            /\ got' = [got EXCEPT ![r] = <<>>]
            /\ ret' = [ret EXCEPT ![r] = "nil"]
    /\ UNCHANGED <<opts, httpClient, response, result, client, do>>

\* --------------------------------------------------- the body factory
\* one invocation of req.GetBody, guarded for a nil factory as net/http's
\* callers guard it: a stream [s, i] positioned where the closure puts it
GetBodyResult(q) ==
    CASE q.GetBody.fn = "nil" -> [ok |-> FALSE, s |-> <<>>, i0 |-> 0, i |-> 0]
      [] q.GetBody.fn = "NoBody" -> [ok |-> TRUE, s |-> <<>>, i0 |-> 0, i |-> 0]
      [] OTHER -> [ok |-> TRUE, s |-> q.GetBody.s, i0 |-> q.GetBody.i,
                   i |-> q.GetBody.i]

CallGetBody(r) ==
    /\ NoPanic
    /\ req[r].exists
    /\ do[r].state = "Idle"
    /\ Len(got[r]) < MaxGetBodyCalls
    /\ got' = [got EXCEPT ![r] = Append(got[r], GetBodyResult(req[r]))]
    /\ UNCHANGED <<opts, httpClient, response, result, client, headers, req, attached, do, ret>>

\* the holder of the j-th stream reads it to the end (io.ReadAll)
ReadStream(r, j) ==
    /\ NoPanic
    /\ j \in 1..Len(got[r])
    /\ got[r][j].ok
    /\ got[r][j].i < Len(got[r][j].s)
    /\ got' = [got EXCEPT ![r][j].i = Len(got[r][j].s)]
    /\ UNCHANGED <<opts, httpClient, response, result, client, headers, req, attached, do, ret>>

\* the caller reads one byte of the source it attached (req.Body wraps that
\* same reader)
ReadSource(r) ==
    /\ NoPanic
    /\ req[r].exists
    /\ do[r].state = "Idle"
    /\ req[r].Body.kind \in ReaderKinds
    /\ req[r].Body.i < Len(req[r].Body.s)
    /\ req' = [req EXCEPT ![r].Body.i = @ + 1]
    /\ UNCHANGED <<opts, httpClient, response, result, client, headers, attached, got, do, ret>>

\* ------------------------------------------------------------ Client.Do
ErrKinds == {"NetworkError", "TimeoutError", "Canceled", "IOError"}

\* what req.Body still holds for the transport to send
BodyRemaining(q) == IF q.Body.kind \in ReaderKinds THEN Unread(q.Body) ELSE <<>>

\* (*http.Request).outgoingLength
OutgoingLength(q) ==
    IF q.Body.kind \in {"nil", "NoBody"} THEN 0
    ELSE IF q.ContentLength # 0 THEN q.ContentLength ELSE -1

\* c.client.Do(req.Request): one network attempt, returning error e after
\* reading n bytes of req.Body as it is.  It can fail at any point with any
\* error; it succeeds only by sending a whole body of the declared length.
TransportCan(q, e, n) ==
    /\ n \in 0..Len(BodyRemaining(q))
    /\ e = "nil" =>
         /\ n = Len(BodyRemaining(q))
         /\ OutgoingLength(q) \in {-1, n}

\* the request after the transport read n bytes of its body
BodyAfterRead(q, n) ==
    IF q.Body.kind \in ReaderKinds THEN [q EXCEPT !.Body.i = @ + n] ELSE q

\* the closure Do hands to retry.Do: resp is the variable it captures
AttemptFnKeepResp(resp, httpErr, httpResp) ==
    IF httpErr # "nil" THEN [resp |-> resp, err |-> httpErr]
    ELSE [resp |-> resp, err |-> "nil"]
AttemptFnSwallowCanceled(resp, httpErr, httpResp) ==
    IF httpErr \notin {"nil", "Canceled"} THEN [resp |-> resp, err |-> httpErr]
    ELSE [resp |-> httpResp, err |-> "nil"]
AttemptFnDropError(resp, httpErr, httpResp) ==
    IF httpErr # "nil" THEN [resp |-> resp, err |-> "nil"]
    ELSE [resp |-> httpResp, err |-> "nil"]
AttemptFnRespFirst(resp, httpErr, httpResp) ==
    [resp |-> httpResp, err |-> httpErr]
AttemptFn(resp, httpErr, httpResp) ==
    IF httpErr # "nil" THEN [resp |-> resp, err |-> httpErr]
    ELSE [resp |-> httpResp, err |-> "nil"]

\* retry.Do's policy: which errors are worth another attempt
Retryable(err) == err \in {"NetworkError", "TimeoutError"}

\* retry.Do after attempt number n of at most max returned err
RetryDo(err, n, max) ==
    IF err = "nil" THEN "Succeeded"
    ELSE IF err = "NotReplayable" THEN "Failed"
    ELSE IF Retryable(err) /\ n < max THEN "Attempting"
    ELSE "Failed"

\* c.Do(req): var resp *Response; retry.Do(..., c.retryOpts) starts.  The
\* streams handed out before are no longer followed.
DoCall(r) ==
    /\ NoPanic
    /\ req[r].exists
    /\ do[r].state = "Idle"
    /\ do' = [do EXCEPT ![r].state = "Attempting"]
    /\ got' = [got EXCEPT ![r] = <<>>]
    /\ UNCHANGED <<opts, httpClient, response, result, client, headers, req, attached, ret>>

\* one attempt of the retry loop and retry.Do's decision after it; in the
\* terminal states resp and err are what Do returns
Attempt(r, e, n) ==
    /\ NoPanic
    /\ do[r].state = "Attempting"
    /\ TransportCan(req[r], e, n)
    /\ LET k == do[r].attempts + 1
           a == AttemptFn(do[r].resp, e, k)
       IN  do' = [do EXCEPT ![r] =
                    [state |-> RetryDo(a.err, k, client.maxAttempts),
                     attempts |-> k,
                     failures |-> do[r].failures + (IF e = "nil" THEN 0 ELSE 1),
                     last |-> e,
                     offered |-> BodyRemaining(req[r]),
                     resp |-> a.resp,
                     err |-> a.err]]
    /\ req' = [req EXCEPT ![r] = BodyAfterRead(req[r], n)]
    /\ UNCHANGED <<opts, httpClient, response, result, client, headers, attached, got, ret>>

\* --------------------------------------------------------- specifications
\* one caller building one request from any body source and sending it under
\* any retry policy; requests of this specification set no headers
InitDo == Init /\ client.header = ClientMap

Next ==
    \/ \E valid \in BOOLEAN, b \in BodyInputs : NewRequest(1, valid, b)
    \/ \E b \in BodyInputs : SetBody(1, b)
    \/ ReadSource(1)
    \/ DoCall(1)
    \/ \E e \in ErrKinds \cup {"nil"}, n \in 0..MaxLen : Attempt(1, e, n)

Spec == InitDo /\ [][Next]_vars

\* one caller attaching bodies to one request and using its body factory;
\* the client's options play no part in these operations
InitBody == Init /\ client = [header |-> ClientMap, maxAttempts |-> 1]

NextBody ==
    \/ \E valid \in BOOLEAN, b \in BodyInputs : NewRequest(1, valid, b)
    \/ \E b \in BodyInputs : SetBody(1, b)
    \/ CallGetBody(1)
    \/ \E j \in 1..MaxGetBodyCalls : ReadStream(1, j)
    \/ ReadSource(1)

SpecBody == InitBody /\ [][NextBody]_vars

\* one caller attaching sources to one request and reading them, the body
\* factory left alone
NextAttach ==
    \/ \E valid \in BOOLEAN, b \in BodyInputs : NewRequest(1, valid, b)
    \/ \E b \in BodyInputs : SetBody(1, b)
    \/ ReadSource(1)

SpecAttach == InitBody /\ [][NextAttach]_vars

\* the transport results the two callers meet: success, a retryable and a
\* terminal error
ClientResults == {"nil", "NetworkError", "Canceled"}

\* two callers sharing the Client, each building its request with the
\* typed helpers and sending it; the transport fails before or after the body
NextClient ==
    \E r \in Reqs :
        \/ \E valid \in BOOLEAN : NewRequest(r, valid, NilBody)
        \/ \E v \in JsonValues : WithJsonBody(r, v)
        \/ \E f \in FormInputs : SetFormBody(r, f)
        \/ \E k \in HeaderKeys : HeaderSet(r, k, "t1")
        \/ DoCall(r)
        \/ \E e \in ClientResults, n \in {0, Len(BodyRemaining(req[r]))} :
              Attempt(r, e, n)

SpecClient == Init /\ [][NextClient]_vars

\* ------------------------------------------------------ NewClient
\* NewClient(opts) with Timeout t, Header h and a retry policy of m
\* attempts, before any request has been built on the Client
NewClient(t, h, m) ==
    /\ \A r \in Reqs : ~req[r].exists /\ ret[r] = "none"
    /\ opts' = t
    /\ httpClient' = HttpClientFor(t)
    /\ client' = [header |-> h, maxAttempts |-> m]
    /\ UNCHANGED <<response, result, headers, req, attached, got, do, ret>>

InitTimeout == Init /\ client = [header |-> ClientMap, maxAttempts |-> 1]

NextTimeout == \E t \in TimeoutInputs : NewClient(t, ClientMap, 1)

SpecTimeout == InitTimeout /\ [][NextTimeout]_vars

\* ------------------------------------------------------ response helpers
\* resp.GetStringBody()
GetStringBody ==
    /\ result.op = "none"
    /\ response' = [response EXCEPT !.Body.i = Len(response.Body.s)]
    /\ result' = IF response.Body.end = "EOF"
                 THEN [op |-> "GetStringBody", target |-> "none",
                       str |-> SubSeq(response.Body.s, response.Body.i + 1,
                                      Len(response.Body.s)),
                       err |-> NilErr]
                 ELSE [op |-> "GetStringBody", target |-> "none", str |-> <<>>,
                       err |-> PlainErr(response.Body.end)]
    /\ UNCHANGED <<opts, httpClient, client, headers, req, attached, got, do, ret>>

\* resp.BindJsonBody(v)
BindJsonBody(target) ==
    /\ result.op = "none"
    /\ response' = [response EXCEPT !.Body.i = Len(response.Body.s)]
    /\ result' = [op |-> "BindJsonBody", target |-> target, str |-> <<>>,
                  err |-> BindError(Decode(response.Body, target))]
    /\ UNCHANGED <<opts, httpClient, client, headers, req, attached, got, do, ret>>

\* one response, as the transport hands it over, and one helper call on it
InitResponse ==
    /\ client = [header |-> ClientMap, maxAttempts |-> 1]
    /\ opts = ZeroDuration
    /\ httpClient = HttpClientFor(opts)
    /\ response \in [Body : ResponseBodies]
    /\ result = NoResult
    /\ headers = [h \in HdrIds |-> EmptyHeader]
    /\ req = [r \in Reqs |-> NoRequest]
    /\ attached = [r \in Reqs |-> NoAttach]
    /\ got = [r \in Reqs |-> <<>>]
    /\ do = [r \in Reqs |-> IdleDo]
    /\ ret = [r \in Reqs |-> "none"]

NextResponse ==
    \/ GetStringBody
    \/ \E target \in Targets : BindJsonBody(target)

SpecResponse == InitResponse /\ [][NextResponse]_vars

\* ============================================================== claims
\* what a stream handed out by the factory held when it was created
StreamContent(e) == SubSeq(e.s, e.i0 + 1, Len(e.s))

\* the header entries seen through map reference h after the step
HeaderViewNext(h) == IF h = NilMap THEN EmptyHeader ELSE headers'[h]

\* C1: in a Do invocation on a request whose attached body is bounded with
\* content B, every attempt is given a fresh stream holding exactly B: an
\* attempt that follows an attempt given B is given B again.
C1_EveryAttemptSendsFreshBody ==
    [][(/\ attached[1].kind \in BoundedKinds
        /\ do[1].attempts >= 1
        /\ do[1].offered = attached[1].unread
        /\ do'[1].attempts = do[1].attempts + 1)
       => do'[1].offered = attached[1].unread]_vars

\* C2: with a one-shot body and a policy of at least two attempts, a failed
\* first attempt ends Do in Failed with no second attempt.
C2_OneShotNeverRetried ==
    (/\ attached[1].kind = "OneShot"
     /\ client.maxAttempts >= 2
     /\ do[1].failures >= 1)
    => (do[1].state = "Failed" /\ do[1].attempts = 1)

\* C3: when the first k attempts fail with retryable errors (k below the
\* policy's max) and the next succeeds, Do makes exactly k+1 attempts, stops
\* at that success and returns its response with a nil error; it does not
\* give up on a retryable error before the max is reached.
C3_RetryUntilFirstSuccess ==
    LET d == do[1] IN
    /\ d.state = "Succeeded" =>
          /\ d.attempts = d.failures + 1
          /\ d.last = "nil"
          /\ d.resp = d.attempts
          /\ d.err = "nil"
    /\ d.state # "Succeeded" => d.failures = d.attempts
    /\ (d.state = "Attempting" /\ d.attempts >= 1) =>
          (Retryable(d.last) /\ d.attempts < client.maxAttempts)
    /\ (d.state = "Failed" /\ Retryable(d.last)) => d.attempts = client.maxAttempts

C3_Witness ==
    /\ do[1].state = "Succeeded"
    /\ do[1].failures = 2
    /\ do[1].resp = 3
    /\ attached[1].kind \in BoundedKinds
    /\ attached[1].unread # <<>>

\* C4: for a bounded source attached at any read position, every factory
\* call yields a stream holding exactly the bytes unread at attach time, and
\* the streams are independent: reading one stream, or the source, changes
\* neither the other streams nor (for a stream) the source.
C4_StreamsHoldUnread ==
    attached[1].kind \in BoundedKinds =>
        \A j \in 1..Len(got[1]) :
            got[1][j].ok /\ StreamContent(got[1][j]) = attached[1].unread

\* a step that keeps streams handed out (no re-attachment drops them) and
\* reads the source leaves every stream as it was; one that reads a stream
\* leaves the source and the other streams as they were
C4_ReadsIndependent ==
    (got[1] # <<>> /\ Len(got'[1]) >= Len(got[1])) =>
        /\ req' # req => got' = got
        /\ got' # got => req' = req
        /\ \A j, k \in 1..Len(got[1]) :
              (j # k /\ got'[1][j] # got[1][j]) => got'[1][k] = got[1][k]

C4_BoundedFactoryReplays == []C4_StreamsHoldUnread /\ [][C4_ReadsIndependent]_vars

C4_Witness ==
    /\ attached[1].kind = "StringsReader"
    /\ attached[1].unread = <<"b">>
    /\ Len(got[1]) = 2
    /\ got[1][1].i0 = 1
    /\ got[1][1].i = 2
    /\ got[1][2].i = 1
    /\ BodyRemaining(req[1]) = <<>>

\* C5: for a one-shot source attached to a request the factory succeeds at
\* most once; a second invocation fails (NotReplayable).
C5_OneShotFactoryOnce ==
    attached[1].kind = "OneShot" =>
        Cardinality({j \in 1..Len(got[1]) : got[1][j].ok}) <= 1

\* C6: after any sequence of attachments the factory reflects only the body
\* attached last: it never yields an earlier body's content, and yields no
\* stream at all once a one-shot source was attached last.
C6_FactoryReflectsLastBody ==
    \A j \in 1..Len(got[1]) :
        got[1][j].ok =>
            /\ attached[1].kind # "OneShot"
            /\ StreamContent(got[1][j]) = attached[1].unread

\* C7: after any sequence of SetBody calls the content length depends only
\* on the source attached last: 0 (with an empty Body and an empty factory
\* stream) for nil, http.NoBody or a bounded source with nothing unread, the
\* unread byte count for a non-empty bounded source, -1 for any other.
C7_ExpectedLength(a) ==
    IF a.kind \in {"nil", "NoBody"} THEN 0
    ELSE IF a.kind \in BoundedKinds THEN Len(a.unread)
    ELSE -1

C7_LengthOfLastBody ==
    attached[1].via = "SetBody" =>
        /\ req[1].ContentLength = C7_ExpectedLength(attached[1])
        /\ C7_ExpectedLength(attached[1]) = 0 =>
              /\ BodyRemaining(req[1]) = <<>>
              /\ GetBodyResult(req[1]).ok
              /\ StreamContent(GetBodyResult(req[1])) = <<>>

\* an operation of the client API on request b
OpOn(b) ==
    \/ \E valid \in BOOLEAN : NewRequest(b, valid, NilBody)
    \/ \E k \in HeaderKeys : HeaderSet(b, k, "t1")
    \/ \E v \in JsonValues : WithJsonBody(b, v)
    \/ \E f \in FormInputs : SetFormBody(b, f)
    \/ DoCall(b)
    \/ \E e \in ClientResults, n \in {0, Len(BodyRemaining(req[b]))} :
          Attempt(b, e, n)

\* C8: two callers with independent requests share no mutable state: no
\* operation on request b changes the headers of another request a.
C8_RequestsShareNoState ==
    [][\A a, b \in Reqs :
          (a # b /\ req[a].exists /\ OpOn(b))
          => HeaderViewNext(req'[a].Header) = HeaderView(req[a].Header)]_vars

\* C9: every request's header map is the client's default header map itself:
\* Content-Type set through one request by WithJsonBody or SetFormBody, or a
\* header set directly, is seen in the client's defaults and through every
\* existing request, and a new request starts with the client's entries.
C9_SameMap == \A r \in Reqs : req[r].exists => req[r].Header = client.header

C9_WriteSeenByAll ==
    \A r \in Reqs :
        /\ (ret'[r] = "nil" /\ \E v \in JsonValues : WithJsonBody(r, v)) =>
              \A q \in Reqs : req'[q].exists =>
                  HeaderViewNext(req'[q].Header)["Content-Type"] = "application/json"
        /\ (ret'[r] = "nil" /\ \E f \in FormInputs : SetFormBody(r, f)) =>
              /\ HeaderViewNext(client.header)["Content-Type"]
                    = "application/x-www-form-urlencoded"
              /\ \A q \in Reqs : req'[q].exists =>
                    HeaderViewNext(req'[q].Header)["Content-Type"]
                       = "application/x-www-form-urlencoded"
        /\ (ret'[r] = "nil" /\ NewRequest(r, TRUE, NilBody)) =>
              HeaderViewNext(req'[r].Header) = HeaderView(client.header)

C9_HeaderMapShared == []C9_SameMap /\ [][C9_WriteSeenByAll]_vars

C9_Witness ==
    /\ client.header = ClientMap
    /\ attached[1].via = "WithJsonBody"
    /\ req[2].exists
    /\ attached[2].via = "NewRequest"
    /\ HeaderView(req[2].Header)["Content-Type"] = "application/json"

\* C10: for every request made by NewRequest, whatever the client's options
\* (no default headers included), and every serializable v, WithJsonBody(v)
\* returns nil, Content-Type is application/json, the content length is the
\* length of the serialization and the factory yields the serialization.
C10_JsonBodyAttached ==
    [][\A r \in Reqs : \A v \in JsonValues :
          (Marshal(v).err = "nil" /\ WithJsonBody(r, v)) =>
              /\ ret'[r] = "nil"
              /\ HeaderViewNext(req'[r].Header)["Content-Type"] = "application/json"
              /\ req'[r].ContentLength = Len(Marshal(v).bs)
              /\ GetBodyResult(req'[r]).ok
              /\ StreamContent(GetBodyResult(req'[r])) = Marshal(v).bs]_vars

\* the pairs of f encoded in the order the caller supplied them
RECURSIVE C11_InSuppliedOrder(_)
C11_InSuppliedOrder(f) ==
    IF f = <<>> THEN <<>>
    ELSE <<f[1][1]>> \o <<"=">> \o QueryEscape(f[1][2])
         \o (IF Tail(f) = <<>> THEN <<>> ELSE <<"&">> \o C11_InSuppliedOrder(Tail(f)))

\* C11: SetFormBody sets Content-Type to application/x-www-form-urlencoded
\* and attaches the pairs form-encoded and joined by "&" in the order the
\* caller supplied them, with the content length of that encoding.
C11_FormKeepsSuppliedOrder ==
    [][\A r \in Reqs : \A f \in FormInputs :
          (req[r].Header # NilMap /\ SetFormBody(r, f)) =>
              /\ HeaderViewNext(req'[r].Header)["Content-Type"]
                    = "application/x-www-form-urlencoded"
              /\ attached'[r].unread = C11_InSuppliedOrder(f)
              /\ BodyRemaining(req'[r]) = C11_InSuppliedOrder(f)
              /\ req'[r].ContentLength = Len(C11_InSuppliedOrder(f))]_vars

\* C12: once an attempt of a Do invocation has failed because the request's
\* context was canceled, Do is Failed and returns the Canceled error, and no
\* further attempt is made, whatever is left of the attempt budget.
C12_CanceledIsFailed ==
    do[1].last = "Canceled" =>
        /\ do[1].state = "Failed"
        /\ do[1].err = "Canceled"
        /\ do[1].resp = 0

C12_NoAttemptAfterCancel ==
    []C12_CanceledIsFailed /\ [][do[1].last = "Canceled" => do'[1] = do[1]]_vars

C12_Witness ==
    /\ do[1].last = "Canceled"
    /\ do[1].attempts = 2
    /\ client.maxAttempts = 3
    /\ attached[1].kind \in BoundedKinds

\* C16: a Do invocation never makes more attempts than the policy's max;
\* when every attempt failed Do ends Failed and returns the error of the
\* last attempt made: no attempt's error is replaced by nil.
C16_BoundedAttemptsLastError ==
    LET d == do[1] IN
    /\ d.attempts <= client.maxAttempts
    /\ d.last # "nil" => d.err = d.last
    /\ (d.attempts >= 1 /\ d.failures = d.attempts) =>
          /\ d.state \in {"Attempting", "Failed"}
          /\ d.state = "Attempting" => d.attempts < client.maxAttempts
    /\ d.state = "Failed" => (d.err = d.last /\ d.err # "nil")

C16_Witness ==
    /\ do[1].state = "Failed"
    /\ do[1].attempts = 3
    /\ do[1].failures = 3
    /\ client.maxAttempts = 3
    /\ do[1].err = "TimeoutError"

\* C17: Do returns exactly one of a response and an error: once Do has
\* returned, the response is non-nil exactly when the error is nil, however
\* many attempts failed before.
C17_ResponseXorError ==
    do[1].state \in {"Succeeded", "Failed"} =>
        ((do[1].resp # 0) <=> (do[1].err = "nil"))

C17_Witness ==
    /\ do[1].state = "Succeeded"
    /\ do[1].failures = 1
    /\ do[1].resp = 2
    /\ do[1].err = "nil"

\* C18: when json.Marshal fails, WithJsonBody returns that error and leaves
\* the request as it was: the same headers (Content-Type included), body,
\* body factory and content length as before the call.  Stated for requests
\* whose header map exists, so that the call gets as far as Marshal.
C18_FailedMarshalLeavesRequest ==
    [][\A r \in Reqs : \A v \in JsonValues :
          (req[r].Header # NilMap /\ Marshal(v).err # "nil" /\ WithJsonBody(r, v)) =>
              /\ ret'[r] = Marshal(v).err
              /\ req'[r] = req[r]
              /\ attached'[r] = attached[r]
              /\ HeaderViewNext(req[r].Header) = HeaderView(req[r].Header)]_vars

\* the sources whose attachment leaves the record the step left: SetBody(1, b)
\* records b's kind and unread content, so every b it can have attached has
\* that kind and that unread content after some already-read prefix
C19_SourcesAttached ==
    {[kind |-> attached'[1].kind, s |-> pre \o attached'[1].unread, i |-> Len(pre)] :
        pre \in SeqsUpTo(Byte, MaxLen - Len(attached'[1].unread))}

\* C19: attaching a bounded source with SetBody does not consume it: the
\* request holds the source at the position it had before the call, the
\* content length is its unread length, and the body factory's streams yield
\* exactly its unread content.
C19_AttachDoesNotConsume ==
    [][\A b \in C19_SourcesAttached :
          (b.kind \in BoundedKinds /\ SetBody(1, b)) =>
              /\ req'[1].ContentLength = ReaderLen(b)
              /\ ReaderLen(b) > 0 => req'[1].Body = b
              /\ BodyRemaining(req'[1]) = Unread(b)
              /\ GetBodyResult(req'[1]).ok
              /\ StreamContent(GetBodyResult(req'[1])) = Unread(b)]_vars

C19_Witness ==
    /\ attached[1] = [via |-> "SetBody", kind |-> "BytesReader", unread |-> <<"b">>]
    /\ req[1].Body = [kind |-> "BytesReader", s |-> <<"a", "b">>, i |-> 1]
    /\ req[1].ContentLength = 1
    /\ got[1] = <<>>

\* C13: GetStringBody reads the whole response body once and, on every
\* return path (success and read error), the body stream is closed when the
\* call returns.
C13_StringBodyReadAndClosed ==
    result.op = "GetStringBody" =>
        /\ response.Body.i = Len(response.Body.s)
        /\ response.Body.end = "EOF" =>
              (result.str = response.Body.s /\ result.err = NilErr)
        /\ response.Body.end # "EOF" =>
              (result.str = <<>> /\ result.err = PlainErr(response.Body.end))
        /\ response.Body.closed

\* the truncated objects: the proper non-empty prefixes of {"n":1}
C14_TruncatedObjects == {<<"{">>, <<"{", "key">>, <<"{", "key", "num">>}

\* C14: every BindJsonBody call produces exactly one of four outcomes: nil;
\* a classified type error carrying expected type, actual value, field and
\* offset; a classified syntax error carrying a non-negative offset when the
\* body is malformed JSON, a truncated object included; or the underlying
\* error unchanged.  The classified errors keep the decode error as cause.
C14_FourOutcomes ==
    result.op = "BindJsonBody" =>
        LET e == result.err
            body == response.Body
            typeErr == /\ e.kind = "HTTPError"
                       /\ e.Message.text = "Unmarshal type error"
                       /\ e.Internal.kind = "UnmarshalTypeError"
                       /\ e.Message.expected = e.Internal.Type
                       /\ e.Message.got = e.Internal.Value
                       /\ e.Message.field = e.Internal.Field
                       /\ e.Message.offset = e.Internal.Offset
            syntaxErr == /\ e.kind = "HTTPError"
                         /\ e.Message.text = "Syntax error"
                         /\ e.Internal.kind = "SyntaxError"
                         /\ e.Message.offset = e.Internal.Offset
                         /\ e.Message.offset >= 0
            other == e.kind \notin {"nil", "HTTPError", "UnmarshalTypeError", "SyntaxError"}
        IN  /\ e = NilErr \/ typeErr \/ syntaxErr \/ other
            /\ (body.s = <<"{", "key", "num", "}">> /\ result.target = "ptrToStruct") =>
                  e = NilErr
            /\ (body.s = <<"{", "key", "str", "}">> /\ result.target = "ptrToStruct") =>
                  (typeErr /\ e.Message.field = "n")
            /\ body.s = <<"{", "key", "}">> => syntaxErr
            /\ (body.s \in C14_TruncatedObjects /\ body.end = "EOF") => syntaxErr

\* C15: for every ClientOptions.Timeout t, NewClient uses the overall
\* timeout T = t if t > 0 and 10 seconds otherwise, gives the dial and the
\* TLS handshake the same timeout T*3/4, and that sub-timeout is strictly
\* positive and strictly smaller than T.
C15_SubTimeoutEffective ==
    /\ httpClient.Timeout = (IF Less(ZeroDuration, opts) THEN opts ELSE defaultTimeout)
    /\ httpClient.DialTimeout = httpClient.TLSHandshakeTimeout
    /\ Less(ZeroDuration, httpClient.DialTimeout)
    /\ Less(httpClient.DialTimeout, httpClient.Timeout)

====
